---- MODULE Spec2Model ----
(***************************************************************************)
(* A model of bb-storage's cloud bucket BlobAccess                         *)
(* (pkg/blobstore/cloud_blob_access.go), of the CAS gRPC server            *)
(* (FindMissingBlobs, BatchReadBlobs, BatchUpdateBlobs, GetTree) and of    *)
(* the BlobAccess-backed CAS (getMessage, GetFile, PutFile).               *)
(*                                                                         *)
(* The bucket (gocloud.dev/blob) is the environment: NewReader, NewWriter, *)
(* Writer.Close, Exists and Delete are modelled by their documented        *)
(* contract.  A Writer commits the object at Close, unless the context it  *)
(* was created with has been cancelled, in which case the write is aborted *)
(* and the previous object (if any) remains.  Every bucket call may fail.  *)
(***************************************************************************)
EXTENDS Integers, Sequences, FiniteSets, TLC

\* ------------------------------------------------------------------ bounds
MaxLen == 1          \* longest blob, in bytes
MaxSet == 2          \* largest digest set handed to FindMissing
MaxRequests == 2     \* most elements in one BatchUpdateBlobs request
WordBits == 3        \* bits of the machine word that stands for int64 and uint64
MaxFile == 2         \* longest file PutFile reads, in bytes, appends included

\* ------------------------------------------------------------- data model
Bytes == {0, 1}

RECURSIVE SeqsUpTo(_)
SeqsUpTo(n) ==
    IF n = 0 THEN {<<>>}
    ELSE LET shorter == SeqsUpTo(n - 1)
         IN  shorter \cup {Append(s, b) : s \in {t \in shorter : Len(t) = n - 1}, b \in Bytes}

Blobs == SeqsUpTo(MaxLen)

\* The digest function: collision free on the blobs of the model.  The
\* value is the bytes read as digits 1 and 2 in base 3.
RECURSIVE Hash(_)
Hash(b) ==
    IF Len(b) = 0 THEN 0
    ELSE (b[Len(b)] + 1) + 3 * Hash(SubSeq(b, 1, Len(b) - 1))

Instances == {"main"}

\* digest.Digest: (instanceName, hash, sizeBytes)
DigestOf(instance, b) == [instance |-> instance, hash |-> Hash(b), size |-> Len(b)]

Digests == {DigestOf(i, b) : i \in Instances, b \in Blobs}

StorageTypes == {"CAS", "AC"}

keyPrefix == "prefix/"

\* StorageType.GetDigestKey: the CAS key leaves the instance name out, the
\* AC key starts with it.
GetDigestKey(st, d) ==
    IF st = "CAS" THEN <<ToString(d.hash), "-", ToString(d.size)>>
    ELSE <<d.instance, "/", ToString(d.hash), "-", ToString(d.size)>>

\* cloudBlobAccess.getKey
getKey(st, d) == <<keyPrefix>> \o GetDigestKey(st, d)

Keys == {getKey(st, d) : st \in StorageTypes, d \in Digests}

\* What the bucket holds under a key: an object with its bytes, or nothing.
Object(b) == [present |-> TRUE, data |-> b]
Absent == [present |-> FALSE, data |-> <<>>]
None == Absent
Nil == [kind |-> "nil", code |-> "OK"]

\* gcerrors.ErrorCode, without OK
GCErrorCodes ==
    {"Unknown", "NotFound", "AlreadyExists", "InvalidArgument", "Internal",
     "Unimplemented", "FailedPrecondition", "PermissionDenied",
     "ResourceExhausted", "Canceled", "DeadlineExceeded"}

\* an error as the bucket returns it, and a gRPC status error
NativeError(c) == [kind |-> "native", code |-> c]
StatusError(c) == [kind |-> "grpc", code |-> c]

\* The codes of the error taxonomy.
Taxonomy ==
    {"NotFound", "InvalidArgument", "DeadlineExceeded", "Cancelled",
     "Unavailable", "ResourceExhausted", "Internal", "Unimplemented"}

\* status.Code(err): the code of a status error; Unknown for any error that
\* is not a gRPC status.
StatusCode(err) ==
    IF err.kind = "nil" THEN "OK"
    ELSE IF err.kind = "grpc" THEN err.code
    ELSE "Unknown"

\* Validation of a buffer's bytes against its digest on consumption: CAS
\* buffers compare hash and size, AC buffers the size alone.
BufferValid(st, d, data) ==
    IF st = "CAS" THEN Hash(data) = d.hash /\ Len(data) = d.size
    ELSE Len(data) = d.size

VARIABLES
    storageType,   \* cloudBlobAccess.storageType
    bucket,        \* the bucket's objects: key -> bytes, or Absent
    put,           \* the Put call in flight
    getBuf,        \* the buffer the last Get returned
    fm,            \* the FindMissing call in flight
    putOK,         \* per key, the bytes of the last Put that returned nil
    target,        \* the digest the caller's Put and Get calls are about
    batch,         \* the BatchUpdateBlobs call in flight
    server,        \* the FindMissingBlobs, BatchReadBlobs or GetTree call in flight
    message,       \* blobAccessContentAddressableStorage and its getMessage call
    getFile,       \* the GetFile call in flight and the file under its name
    putFile        \* the PutFile call in flight and the file it reads

\* The variables of the gRPC server's other calls and of the
\* BlobAccess-backed CAS.
casVars == <<server, message, getFile, putFile>>

vars == <<storageType, target, bucket, put, getBuf, fm, putOK, batch, casVars>>

PutIdle ==
    [pc |-> "idle", digest |-> DigestOf("main", <<>>), data |-> <<>>,
     written |-> <<>>, ctxDone |-> FALSE, cancelled |-> FALSE,
     events |-> <<>>, result |-> Nil, copyErr |-> Nil, before |-> Absent]

GetNone ==
    [state |-> "none", digest |-> DigestOf("main", <<>>), key |-> <<>>,
     data |-> <<>>, err |-> Nil, ctxDone |-> FALSE, expected |-> None,
     repair |-> "none"]

FmIdle ==
    [pc |-> "idle", digests |-> {}, items |-> <<>>, idx |-> 1, missing |-> {},
     result |-> {}, err |-> Nil, checks |-> 0, guaranteed |-> {}]

BatchIdle ==
    [pc |-> "idle", requests |-> <<>>, worker |-> <<>>, err |-> <<>>,
     puts |-> <<>>, putResult |-> <<>>, sent |-> <<>>, chan |-> <<>>,
     response |-> <<>>, rpcErr |-> Nil]

ServerIdle ==
    [pc |-> "idle", op |-> "none", instanceName |-> "main", blobDigests |-> <<>>,
     calls |-> [Get |-> 0, Put |-> 0, FindMissing |-> 0], inDigests |-> {},
     outDigests |-> {}, backendErr |-> Nil, hasResponse |-> FALSE,
     response |-> <<>>, err |-> Nil]

MessageIdle ==
    [pc |-> "idle", op |-> "none", maximumMessageSizeBytes |-> 0, sizeBytes |-> 0,
     gets |-> 0, err |-> Nil]

GetFileIdle ==
    [pc |-> "idle", digest |-> DigestOf("main", <<>>), mode |-> "0444", file |-> Absent,
     before |-> Absent, created |-> FALSE, r |-> <<>>, err |-> Nil]

PutFileIdle ==
    [pc |-> "idle", file |-> <<>>, hashed |-> <<>>, sizeBytes |-> 0,
     digest |-> [hash |-> 0, size |-> 0], declared |-> 0, offered |-> <<>>,
     eof |-> FALSE, err |-> Nil]

\* No call of the gRPC server's other methods or of the BlobAccess-backed CAS
\* is in flight.
CasInit ==
    /\ server = ServerIdle
    /\ message = MessageIdle
    /\ getFile = GetFileIdle
    /\ putFile = PutFileIdle

\* The digests callers store under: those of one instance.
PutDigests == {d \in Digests : d.instance = "main"}

\* The bytes a caller hands to Put under digest d: the blob d names, a blob
\* of the same size with other bytes, and a truncated blob.
PutBlobs(d) ==
    {b \in Blobs : \/ Hash(b) = d.hash /\ Len(b) = d.size
                   \/ Len(b) = d.size /\ \A i \in 1..Len(b) : b[i] = 0
                   \/ Len(b) + 1 = d.size /\ \A i \in 1..Len(b) : b[i] = 0}

\* When the backend is created the bucket holds nothing under the key of
\* digest d, or an object whose bytes need not match the key.
InitialBuckets(st, d) ==
    {[k \in Keys |-> Absent]}
    \cup {[k \in Keys |-> IF k = getKey(st, d) THEN Object(b) ELSE Absent] :
             b \in PutBlobs(d)}

Init ==
    /\ storageType \in StorageTypes
    /\ target \in PutDigests
    /\ bucket \in InitialBuckets(storageType, target)
    /\ put = PutIdle
    /\ getBuf = GetNone
    /\ fm = FmIdle
    /\ putOK = [k \in Keys |-> None]
    /\ batch = BatchIdle
    /\ CasInit

\* ------------------------------------------------------------ the caller
\* One caller makes the calls one after another: a call starts when the
\* previous one has returned and the buffer a Get returned has been
\* consumed, and the record of the previous call is dropped.
MayCall ==
    /\ put.pc \in {"idle", "returned"}
    /\ fm.pc \in {"idle", "returned"}
    /\ getBuf.state # "reader"

\* ----------------------------------------------------- cloudBlobAccess.Put

\* The steps of Put act on the call's record p, the bucket b and putOK o.
PutState(p, b, o) == [p |-> p, b |-> b, o |-> o]

\* The write context is done once cancel() was called or the caller's
\* context, which it derives from, is done.
WriteCtxDone(p) == p.ctxDone \/ p.cancelled

\* cancel()
Cancel(s) ==
    [s EXCEPT !.p = [@ EXCEPT !.cancelled = TRUE, !.events = Append(@, "Cancel")]]

\* w.Close(): commits what was written, unless the write context is done
\* or the bucket fails (ok = FALSE).  Once the object is replaced no
\* returned Put vouches for the bytes under the key.
WriterClose(s, ok) ==
    LET key == getKey(storageType, s.p.digest)
        commits == ok /\ ~WriteCtxDone(s.p)
    IN  [p |-> [s.p EXCEPT !.events = Append(@, "Close")],
         b |-> IF commits THEN [s.b EXCEPT ![key] = Object(s.p.written)] ELSE s.b,
         o |-> IF commits THEN [s.o EXCEPT ![key] = None] ELSE s.o]

\* return err, running the deferred r.Close()
ReturnNoReaderClose(s, err) ==
    [s EXCEPT !.p = [@ EXCEPT !.pc = "returned", !.result = err]]

Return(s, err) ==
    [s EXCEPT !.p = [@ EXCEPT !.pc = "returned", !.result = err,
                              !.events = Append(@, "ReaderClose")]]

\* r := b.ToReader(); defer r.Close(); ctx, cancel := context.WithCancel(ctx)
PutCall(d, b) ==
    /\ MayCall
    /\ put' = [PutIdle EXCEPT !.pc = "newWriter", !.digest = d, !.data = b,
                              !.events = <<"ToReader">>,
                              !.before = bucket[getKey(storageType, d)]]
    /\ fm' = FmIdle
    /\ getBuf' = GetNone
    /\ UNCHANGED <<storageType, target, bucket, putOK, batch, casVars>>

\* The caller cancels the context it passed to Put while the bytes are
\* copied or before the writer is closed.  (Cancelled earlier, NewWriter or
\* the copy fails or does not notice; cancelled after Close, it changes
\* nothing.)
PutCtxCancel ==
    /\ put.pc \in {"copy", "close"}
    /\ ~put.ctxDone
    /\ put' = [put EXCEPT !.ctxDone = TRUE]
    /\ UNCHANGED <<storageType, target, bucket, getBuf, fm, putOK, batch, casVars>>

\* NewWriter fails: cancel(); return err
NewWriterFailSteps(s, err) == Return(Cancel(s), err)

PutNewWriterFail(c) ==
    /\ put.pc = "newWriter"
    /\ put' = NewWriterFailSteps(PutState(put, bucket, putOK), NativeError(c)).p
    /\ UNCHANGED <<storageType, target, bucket, getBuf, fm, putOK, batch, casVars>>

PutNewWriterOK ==
    /\ put.pc = "newWriter"
    /\ put' = [put EXCEPT !.pc = "copy", !.events = Append(@, "NewWriter")]
    /\ UNCHANGED <<storageType, target, bucket, getBuf, fm, putOK, batch, casVars>>

\* io.Copy moves one more byte from the reader into the writer.
PutCopyWrite ==
    /\ put.pc = "copy"
    /\ Len(put.written) < Len(put.data)
    /\ put' = [put EXCEPT !.written = Append(@, put.data[Len(put.written) + 1])]
    /\ UNCHANGED <<storageType, target, bucket, getBuf, fm, putOK, batch, casVars>>

\* The errors io.Copy can end with: a failed read or write at any point,
\* and, once the reader is at the end of its bytes, the buffer's
\* validation error.
CopyErrors(p) ==
    {NativeError("Unknown"), NativeError("Canceled")}
    \cup IF Len(p.written) = Len(p.data) /\ ~BufferValid(storageType, p.digest, p.data)
         THEN {StatusError("Internal")} ELSE {}

\* io.Copy failed: cancel(); w.Close(); return err
CopyFailCloseThenCancel(s, err, ok) ==
    Return(Cancel(WriterClose([s EXCEPT !.p = [@ EXCEPT !.copyErr = err]], ok)), err)

CopyFailSteps(s, err, ok) ==
    Return(WriterClose(Cancel([s EXCEPT !.p = [@ EXCEPT !.copyErr = err]]), ok), err)

PutCopyFail(err, ok) ==
    /\ put.pc = "copy"
    /\ err \in CopyErrors(put)
    /\ LET s == CopyFailSteps(PutState(put, bucket, putOK), err, ok)
       IN  put' = s.p /\ bucket' = s.b /\ putOK' = s.o
    /\ UNCHANGED <<storageType, target, getBuf, fm, batch, casVars>>

\* io.Copy returned nil: every byte was read and written, and the buffer
\* validated.
PutCopyDone ==
    /\ put.pc = "copy"
    /\ Len(put.written) = Len(put.data)
    /\ BufferValid(storageType, put.digest, put.data)
    /\ put' = [put EXCEPT !.pc = "close"]
    /\ UNCHANGED <<storageType, target, bucket, getBuf, fm, putOK, batch, casVars>>

\* w.Close() on the success path; the error it returns is dropped.
PutClose(ok) ==
    /\ put.pc = "close"
    /\ LET s == WriterClose(PutState(put, bucket, putOK), ok)
       IN  put' = [s.p EXCEPT !.pc = "cancel"] /\ bucket' = s.b /\ putOK' = s.o
    /\ UNCHANGED <<storageType, target, getBuf, fm, batch, casVars>>

\* cancel(); return nil.  From here on the caller holds a successful Put
\* of these bytes under the key.
SuccessStepsNoCancel(s) == Return(s, Nil)

SuccessSteps(s) == Return(Cancel(s), Nil)

PutCancelReturn ==
    /\ put.pc = "cancel"
    /\ put' = SuccessSteps(PutState(put, bucket, putOK)).p
    /\ putOK' = [putOK EXCEPT ![getKey(storageType, put.digest)] = Object(put.data)]
    /\ UNCHANGED <<storageType, target, bucket, getBuf, fm, batch, casVars>>

\* ----------------------------------------------------- cloudBlobAccess.Get

\* bucket.NewReader(ctx, key, nil) fails: with NotFound when there is no
\* object under the key, and with any other code whether there is or not.
NewReaderErrors(key) ==
    IF bucket[key].present THEN GCErrorCodes \ {"NotFound"} ELSE GCErrorCodes

\* if gcerrors.Code(err) == gcerrors.NotFound { err = status.Errorf(codes.NotFound, ...) }
TranslateReaderError(c) ==
    IF c = "NotFound" THEN StatusError("NotFound") ELSE NativeError(c)

\* return buffer.NewBufferFromError(err)
GetError(d, c) ==
    /\ MayCall
    /\ c \in NewReaderErrors(getKey(storageType, d))
    /\ getBuf' = [GetNone EXCEPT !.state = "error", !.digest = d,
                                 !.key = getKey(storageType, d),
                                 !.err = TranslateReaderError(c),
                                 !.expected = putOK[getKey(storageType, d)]]
    /\ put' = PutIdle
    /\ fm' = FmIdle
    /\ UNCHANGED <<storageType, target, bucket, putOK, batch, casVars>>

\* return ba.storageType.NewBufferFromReader(digest, result, buffer.Reparable(...)):
\* the repair callback holds the key and the context of this call.
RepairKey(d) == getKey(storageType, d)

GetReader(d) ==
    /\ MayCall
    /\ bucket[getKey(storageType, d)].present
    /\ getBuf' = [GetNone EXCEPT !.state = "reader", !.digest = d,
                                 !.key = RepairKey(d),
                                 !.data = bucket[getKey(storageType, d)].data,
                                 !.expected = putOK[getKey(storageType, d)]]
    /\ put' = PutIdle
    /\ fm' = FmIdle
    /\ UNCHANGED <<storageType, target, bucket, putOK, batch, casVars>>

\* The caller cancels the context it passed to Get, the buffer not yet
\* consumed.
GetCtxCancel ==
    /\ getBuf.state = "reader"
    /\ ~getBuf.ctxDone
    /\ getBuf' = [getBuf EXCEPT !.ctxDone = TRUE]
    /\ UNCHANGED <<storageType, target, bucket, put, fm, putOK, batch, casVars>>

\* The buffer is consumed and its bytes validate.
ConsumeValid ==
    /\ getBuf.state = "reader"
    /\ BufferValid(storageType, getBuf.digest, getBuf.data)
    /\ getBuf' = [getBuf EXCEPT !.state = "consumed"]
    /\ UNCHANGED <<storageType, target, bucket, put, fm, putOK, batch, casVars>>

\* ba.bucket.Delete(ctx, key) with the context of the Get call: a bucket
\* whose driver honours the context returns its error once it is done, one
\* that ignores it deletes; with a live context the delete happens unless
\* the bucket fails.
DeleteContext(g) == g.ctxDone

DeleteOutcomes(g) ==
    IF DeleteContext(g) THEN {"ctxError", "deleted"} ELSE {"deleted", "failed"}

\* The buffer is consumed and its bytes do not validate: the consumer gets
\* an Internal error and the repair callback runs.
ConsumeInvalid(outcome) ==
    /\ getBuf.state = "reader"
    /\ ~BufferValid(storageType, getBuf.digest, getBuf.data)
    /\ outcome \in DeleteOutcomes(getBuf)
    /\ getBuf' = [getBuf EXCEPT !.state = "consumed", !.repair = outcome,
                                !.err = StatusError("Internal")]
    /\ bucket' = IF outcome = "deleted"
                 THEN [bucket EXCEPT ![getBuf.key] = Absent] ELSE bucket
    /\ putOK' = IF outcome = "deleted"
                THEN [putOK EXCEPT ![getBuf.key] = None] ELSE putOK
    /\ UNCHANGED <<storageType, target, put, fm, batch, casVars>>

\* --------------------------------------------- cloudBlobAccess.FindMissing

\* digest.Set.Items(): the digests of the set, in a fixed order.
DigestLess(a, b) ==
    \/ a.hash < b.hash
    \/ a.hash = b.hash /\ a.size < b.size
    \/ a.hash = b.hash /\ a.size = b.size /\ a.instance = "main" /\ b.instance = "other"

RECURSIVE Items(_)
Items(S) ==
    IF S = {} THEN <<>>
    ELSE LET first == CHOOSE d \in S : \A e \in S \ {d} : DigestLess(d, e)
         IN  <<first>> \o Items(S \ {first})

\* The digest sets of at most n digests.
RECURSIVE SetsUpTo(_)
SetsUpTo(n) ==
    IF n = 0 THEN {{}}
    ELSE LET smaller == SetsUpTo(n - 1)
         IN  smaller \cup {T \cup {d} : T \in smaller, d \in Digests}

DigestSets == SetsUpTo(MaxSet)

\* The digest sets that hold digest d.
SetsWith(d) == {T \cup {d} : T \in SetsUpTo(MaxSet - 1)}

\* missing := digest.NewSetBuilder()
FindMissingCall(S) ==
    /\ MayCall
    /\ fm' = [FmIdle EXCEPT !.pc = "loop", !.digests = S, !.items = Items(S),
                            !.guaranteed =
                                {d \in S : putOK[getKey(storageType, d)].present}]
    /\ put' = PutIdle
    /\ getBuf' = GetNone
    /\ UNCHANGED <<storageType, target, bucket, putOK, batch, casVars>>

\* ba.bucket.Exists(ctx, ba.getKey(blobDigest)) returns (exists, nil);
\* } else if !exists { missing.Add(blobDigest) }
MissingAfterInverted(f, exists) ==
    IF exists THEN f.missing \cup {f.items[f.idx]} ELSE f.missing

MissingAfter(f, exists) ==
    IF exists THEN f.missing ELSE f.missing \cup {f.items[f.idx]}

FindMissingExists ==
    /\ fm.pc = "loop"
    /\ fm.idx <= Len(fm.items)
    /\ fm' = [fm EXCEPT !.missing =
                            MissingAfter(fm, bucket[getKey(storageType, fm.items[fm.idx])].present),
                        !.idx = @ + 1, !.checks = @ + 1]
    /\ UNCHANGED <<storageType, target, bucket, put, getBuf, putOK, batch, casVars>>

\* return digest.EmptySet, err
ReturnMissingSoFar(f, err) ==
    [f EXCEPT !.pc = "returned", !.result = f.missing, !.err = err]

ReturnEmptySet(f, err) ==
    [f EXCEPT !.pc = "returned", !.result = {}, !.err = err]

\* Exists returns an error: return digest.EmptySet, err
FindMissingExistsFail(c) ==
    /\ fm.pc = "loop"
    /\ fm.idx <= Len(fm.items)
    /\ fm' = ReturnEmptySet([fm EXCEPT !.checks = @ + 1], NativeError(c))
    /\ UNCHANGED <<storageType, target, bucket, put, getBuf, putOK, batch, casVars>>

\* return missing.Build(), nil
FindMissingReturn ==
    /\ fm.pc = "loop"
    /\ fm.idx > Len(fm.items)
    /\ fm' = [fm EXCEPT !.pc = "returned", !.result = fm.missing]
    /\ UNCHANGED <<storageType, target, bucket, put, getBuf, putOK, batch, casVars>>

NextCloud ==
    \/ \E b \in PutBlobs(target) : PutCall(target, b)
    \/ PutCtxCancel
    \/ \E c \in {"Unknown", "Canceled"} : PutNewWriterFail(c)
    \/ PutNewWriterOK
    \/ PutCopyWrite
    \/ \E err \in {NativeError("Unknown"), NativeError("Canceled"), StatusError("Internal")},
          ok \in BOOLEAN : PutCopyFail(err, ok)
    \/ PutCopyDone
    \/ \E ok \in BOOLEAN : PutClose(ok)
    \/ PutCancelReturn
    \/ \E c \in GCErrorCodes : GetError(target, c)
    \/ GetReader(target)
    \/ GetCtxCancel
    \/ ConsumeValid
    \/ \E outcome \in {"deleted", "ctxError", "failed"} : ConsumeInvalid(outcome)
    \/ \E S \in SetsWith(target) : FindMissingCall(S)
    \/ FindMissingExists
    \/ \E c \in {"Unknown", "Canceled"} : FindMissingExistsFail(c)
    \/ FindMissingReturn

Next == NextCloud

Spec == Init /\ [][Next]_vars

\* ------------------------------------------- FindMissing on any bucket
\* The blob a digest names.
BlobOf(d) == CHOOSE b \in Blobs : DigestOf(d.instance, b) = d

\* Any set of digests may be present when FindMissing is called.
InitFind ==
    /\ storageType \in StorageTypes
    /\ target = DigestOf("main", <<>>)
    /\ \E present \in SUBSET Digests :
          bucket = [k \in Keys |->
                       IF \E d \in present : k = getKey(storageType, d)
                       THEN Object(BlobOf(CHOOSE d \in present : k = getKey(storageType, d)))
                       ELSE Absent]
    /\ put = PutIdle
    /\ getBuf = GetNone
    /\ fm = FmIdle
    /\ putOK = [k \in Keys |-> None]
    /\ batch = BatchIdle
    /\ CasInit

\* One FindMissing call is made on the bucket, which no call changes.
NextFind ==
    \/ \E S \in DigestSets : fm.pc = "idle" /\ FindMissingCall(S)
    \/ FindMissingExists
    \/ \E c \in {"Unknown", "Canceled"} : FindMissingExistsFail(c)
    \/ FindMissingReturn

SpecFind == InitFind /\ [][NextFind]_vars

\* ------------------------- contentAddressableStorageServer.BatchUpdateBlobs

\* remoteexecution.Digest, the partial digest of the wire: hash and size.
PartialDigest(hash, size) == [hash |-> hash, size |-> size]

\* The elements a request is made of: two blobs under their digests, and a
\* digest that is not valid.
RequestElements ==
    {[Digest |-> PartialDigest(Hash(<<>>), 0), Data |-> <<>>],
     [Digest |-> PartialDigest(Hash(<<0>>), 1), Data |-> <<0>>],
     [Digest |-> PartialDigest(Hash(<<>>), -1), Data |-> <<>>]}

RECURSIVE RequestsUpTo(_)
RequestsUpTo(n) ==
    IF n = 0 THEN {<<>>}
    ELSE LET shorter == RequestsUpTo(n - 1)
         IN  shorter \cup {Append(r, e) : r \in {q \in shorter : Len(q) = n - 1},
                                          e \in RequestElements}

\* digest.NewDigestFromPartialDigest: the error for a digest that is not
\* valid.
DigestError(pd) ==
    IF pd.size < 0 THEN StatusError("InvalidArgument") ELSE Nil

\* What the backend's Put may return.
PutResults == {Nil, StatusError("Unavailable"), NativeError("Unknown")}

\* status.Convert(err).Proto(): the code of the status of err.
Convert(err) == StatusCode(err)

\* responsesChan := make(chan ..., len(in.Requests)); one goroutine is
\* started per element of in.Requests.
BatchCall(requests) ==
    /\ batch.pc \in {"idle", "returned"}
    /\ batch' = [BatchIdle EXCEPT
                    !.pc = "running", !.requests = requests,
                    !.worker = [i \in DOMAIN requests |-> "start"],
                    !.err = [i \in DOMAIN requests |-> Nil],
                    !.puts = [i \in DOMAIN requests |-> 0],
                    !.putResult = [i \in DOMAIN requests |-> Nil],
                    !.sent = [i \in DOMAIN requests |-> <<>>]]
    /\ UNCHANGED <<storageType, target, bucket, put, getBuf, fm, putOK, casVars>>

\* if err == nil { err = s.contentAddressableStorage.Put(...) }
ShouldPutAlways(err) == TRUE

ShouldPut(err) == err = Nil

\* digest, err := digest.NewDigestFromPartialDigest(in.InstanceName, request.Digest),
\* and the call of Put when the digest is valid.
WorkerValidate(i) ==
    /\ batch.pc = "running"
    /\ i \in DOMAIN batch.requests
    /\ batch.worker[i] = "start"
    /\ LET err == DigestError(batch.requests[i].Digest)
       IN  batch' = IF ShouldPut(err)
                    THEN [batch EXCEPT !.worker[i] = "put", !.err[i] = err,
                                       !.puts[i] = @ + 1]
                    ELSE [batch EXCEPT !.worker[i] = "send", !.err[i] = err]
    /\ UNCHANGED <<storageType, target, bucket, put, getBuf, fm, putOK, casVars>>

\* Put returns to the goroutine of element i.
WorkerPutReturn(i, r) ==
    /\ batch.pc = "running"
    /\ i \in DOMAIN batch.requests
    /\ batch.worker[i] = "put"
    /\ batch' = [batch EXCEPT !.worker[i] = "send", !.err[i] = r, !.putResult[i] = r]
    /\ UNCHANGED <<storageType, target, bucket, put, getBuf, fm, putOK, casVars>>

\* &remoteexecution.BatchUpdateBlobsResponse_Response{Digest: request.Digest,
\*     Status: status.Convert(err).Proto()}, request the goroutine's own
\* argument.
ResponseOfLast(b, i) ==
    [Digest |-> b.requests[Len(b.requests)].Digest, Status |-> Convert(b.err[i])]

ResponseFor(b, i) ==
    [Digest |-> b.requests[i].Digest, Status |-> Convert(b.err[i])]

\* make(chan ..., len(in.Requests)): the capacity of responsesChan.
CapacityOneLess(b) == Len(b.requests) - 1

Capacity(b) == Len(b.requests)

\* responsesChan <- response: blocks while the channel is full.
WorkerSend(i) ==
    /\ batch.pc = "running"
    /\ i \in DOMAIN batch.requests
    /\ batch.worker[i] = "send"
    /\ Len(batch.chan) < Capacity(batch)
    /\ batch' = [batch EXCEPT !.worker[i] = "done",
                              !.sent[i] = ResponseFor(batch, i),
                              !.chan = Append(@, ResponseFor(batch, i))]
    /\ UNCHANGED <<storageType, target, bucket, put, getBuf, fm, putOK, casVars>>

\* response.Responses = append(response.Responses, <-responsesChan)
BatchReceive ==
    /\ batch.pc = "running"
    /\ Len(batch.response) < Len(batch.requests)
    /\ batch.chan # <<>>
    /\ batch' = [batch EXCEPT !.response = Append(@, Head(batch.chan)),
                              !.chan = Tail(@)]
    /\ UNCHANGED <<storageType, target, bucket, put, getBuf, fm, putOK, casVars>>

\* return &response, nil
BatchReturn ==
    /\ batch.pc = "running"
    /\ Len(batch.response) = Len(batch.requests)
    /\ batch' = [batch EXCEPT !.pc = "returned", !.rpcErr = Nil]
    /\ UNCHANGED <<storageType, target, bucket, put, getBuf, fm, putOK, casVars>>

InitBatch ==
    /\ storageType = "CAS"
    /\ target = DigestOf("main", <<>>)
    /\ bucket = [k \in Keys |-> Absent]
    /\ put = PutIdle
    /\ getBuf = GetNone
    /\ fm = FmIdle
    /\ putOK = [k \in Keys |-> None]
    /\ batch = BatchIdle
    /\ CasInit

NextBatch ==
    \/ \E requests \in RequestsUpTo(MaxRequests) : BatchCall(requests)
    \/ \E i \in 1..MaxRequests : WorkerValidate(i)
    \/ \E i \in 1..MaxRequests, r \in PutResults : WorkerPutReturn(i, r)
    \/ \E i \in 1..MaxRequests : WorkerSend(i)
    \/ BatchReceive
    \/ BatchReturn

SpecBatch == InitBatch /\ [][NextBatch]_vars

\* What the goroutine of element i does.
WorkerStep(i) ==
    \/ WorkerValidate(i)
    \/ \E r \in PutResults : WorkerPutReturn(i, r)
    \/ WorkerSend(i)

\* What the goroutine of the call does once the workers are started.
RecombineStep == BatchReceive \/ BatchReturn

\* The Go scheduler runs every goroutine that can run, and every Put of the
\* backend returns.
SpecBatchFair ==
    /\ InitBatch
    /\ [][NextBatch]_vars
    /\ \A i \in 1..MaxRequests : WF_vars(WorkerStep(i))
    /\ WF_vars(RecombineStep)

\* -------------------------------- the other calls and the CAS over BlobAccess

\* The variables of the cloud backend and of BatchUpdateBlobs.
cloudVars == <<storageType, target, bucket, put, getBuf, fm, putOK, batch>>

\* The cloud backend with an empty bucket and no call in flight.
CloudInit ==
    /\ storageType = "CAS"
    /\ target = DigestOf("main", <<>>)
    /\ bucket = [k \in Keys |-> Absent]
    /\ put = PutIdle
    /\ getBuf = GetNone
    /\ fm = FmIdle
    /\ putOK = [k \in Keys |-> None]
    /\ batch = BatchIdle

\* ------------------------- contentAddressableStorageServer.FindMissingBlobs

\* The partial digests a request names: those of the blobs, and one that is
\* not valid.
PartialDigests ==
    {PartialDigest(Hash(b), Len(b)) : b \in Blobs}
    \cup {PartialDigest(Hash(<<>>), -1)}

\* in.InstanceName
InstanceNames == {"main", "other"}

\* in.BlobDigests: the sequences of at most n partial digests.
RECURSIVE BlobDigestsUpTo(_)
BlobDigestsUpTo(n) ==
    IF n = 0 THEN {<<>>}
    ELSE LET shorter == BlobDigestsUpTo(n - 1)
         IN  shorter \cup {Append(q, pd) : q \in {r \in shorter : Len(r) = n - 1},
                                           pd \in PartialDigests}

\* The requests of FindMissingBlobs, BatchReadBlobs and GetTree: an instance
\* name and digests (for GetTree, the root digest).
ServerRequests ==
    {[InstanceName |-> i, BlobDigests |-> q] :
        i \in InstanceNames, q \in BlobDigestsUpTo(MaxSet)}

\* digest.NewDigestFromPartialDigest, for a digest that is valid.
NewDigestFromPartialDigest(instance, pd) ==
    [instance |-> instance, hash |-> pd.hash, size |-> pd.size]

\* Digest.GetPartialDigest: the digest without its instance name.
GetPartialDigest(d) == PartialDigest(d.hash, d.size)

\* The loop over in.BlobDigests: the error of the first digest that is not
\* valid, or the set of all digests.
RECURSIVE BuildInDigests(_, _, _)
BuildInDigests(instance, pds, inDigests) ==
    IF pds = <<>> THEN [err |-> Nil, set |-> inDigests]
    ELSE IF DigestError(Head(pds)) # Nil
         THEN [err |-> DigestError(Head(pds)), set |-> inDigests]
         ELSE BuildInDigests(instance, Tail(pds),
                  inDigests \cup {NewDigestFromPartialDigest(instance, Head(pds))})

\* FindMissingBlobs up to the call of the backend's FindMissing, or to the
\* return of a digest's error.
FindMissingBlobsCall(in) ==
    /\ server.pc \in {"idle", "returned"}
    /\ LET built == BuildInDigests(in.InstanceName, in.BlobDigests, {})
           called == [ServerIdle EXCEPT !.op = "FindMissingBlobs",
                                        !.instanceName = in.InstanceName,
                                        !.blobDigests = in.BlobDigests]
       IN  server' = IF built.err # Nil
                     THEN [called EXCEPT !.pc = "returned", !.err = built.err]
                     ELSE [called EXCEPT !.pc = "backend", !.inDigests = built.set,
                                         !.calls.FindMissing = @ + 1]
    /\ UNCHANGED <<cloudVars, message, getFile, putFile>>

\* The backend's FindMissing fails: return nil, err
BackendFindMissingFail(err) ==
    /\ server.pc = "backend"
    /\ server' = [server EXCEPT !.pc = "returned", !.backendErr = err, !.err = err]
    /\ UNCHANGED <<cloudVars, message, getFile, putFile>>

\* partialDigests = append(partialDigests, outDigest.GetPartialDigest()) for
\* every outDigest of outDigests.Items()
MissingBlobDigestsButLast(outDigests) ==
    [i \in 1..(Len(Items(outDigests)) - 1) |-> GetPartialDigest(Items(outDigests)[i])]

MissingBlobDigests(outDigests) ==
    [i \in 1..Len(Items(outDigests)) |-> GetPartialDigest(Items(outDigests)[i])]

\* The backend's FindMissing returns outDigests, digests of the set it was
\* asked about.
BackendFindMissingReturn(outDigests) ==
    /\ server.pc = "backend"
    /\ outDigests \subseteq server.inDigests
    /\ server' = [server EXCEPT !.pc = "returned", !.outDigests = outDigests,
                                !.hasResponse = TRUE,
                                !.response = MissingBlobDigests(outDigests)]
    /\ UNCHANGED <<cloudVars, message, getFile, putFile>>

\* --------- contentAddressableStorageServer.BatchReadBlobs and GetTree

\* return status.Error(codes.Unimplemented, ...)
UnimplementedAfterGet(s) ==
    [s EXCEPT !.pc = "returned", !.calls.Get = @ + 1,
              !.err = StatusError("Unimplemented")]

Unimplemented(s) ==
    [s EXCEPT !.pc = "returned", !.err = StatusError("Unimplemented")]

BatchReadBlobsCall(in) ==
    /\ server.pc \in {"idle", "returned"}
    /\ server' = Unimplemented([ServerIdle EXCEPT !.op = "BatchReadBlobs",
                                                  !.instanceName = in.InstanceName,
                                                  !.blobDigests = in.BlobDigests])
    /\ UNCHANGED <<cloudVars, message, getFile, putFile>>

GetTreeCall(in) ==
    /\ server.pc \in {"idle", "returned"}
    /\ server' = Unimplemented([ServerIdle EXCEPT !.op = "GetTree",
                                                  !.instanceName = in.InstanceName,
                                                  !.blobDigests = in.BlobDigests])
    /\ UNCHANGED <<cloudVars, message, getFile, putFile>>

InitServer ==
    /\ CloudInit
    /\ CasInit

\* One call is made on the server.
NextServer ==
    \/ \E in \in ServerRequests : server.pc = "idle" /\ FindMissingBlobsCall(in)
    \/ \E err \in PutResults \ {Nil} : BackendFindMissingFail(err)
    \/ \E outDigests \in SUBSET server.inDigests : BackendFindMissingReturn(outDigests)
    \/ \E in \in ServerRequests : server.pc = "idle" /\ BatchReadBlobsCall(in)
    \/ \E in \in ServerRequests : server.pc = "idle" /\ GetTreeCall(in)

SpecServer == InitServer /\ [][NextServer]_vars

\* ----------------------------- blobAccessContentAddressableStorage.GetFile

\* var mode os.FileMode = 0444; if isExecutable { mode = 0555 }
FileMode(isExecutable) == IF isExecutable THEN "0555" ELSE "0444"

\* directory.OpenAppend(name, filesystem.CreateExcl(mode)): fails when a file
\* of that name exists, and may fail when none does; when it succeeds the
\* directory holds an empty file under the name.
OpenAppendOutcomes(file) == IF file.present THEN {"exists"} ELSE {"created", "failed"}

\* GetFile up to the call of the backend's Get, or to the return of the
\* error of OpenAppend.
GetFileCall(d, isExecutable, outcome) ==
    /\ getFile.pc \in {"idle", "returned"}
    /\ outcome \in OpenAppendOutcomes(getFile.file)
    /\ LET called == [GetFileIdle EXCEPT !.digest = d, !.mode = FileMode(isExecutable),
                                         !.file = getFile.file,
                                         !.before = getFile.file]
       IN  getFile' = IF outcome = "created"
                      THEN [called EXCEPT !.pc = "get", !.created = TRUE,
                                          !.file = Object(<<>>)]
                      ELSE [called EXCEPT !.pc = "returned",
                                          !.err = NativeError("Unknown")]
    /\ UNCHANGED <<cloudVars, server, message, putFile>>

\* _, r, err := cas.blobAccess.Get(ctx, digest); if err != nil { return err }
GetFileGetFail(err) ==
    /\ getFile.pc = "get"
    /\ getFile' = [getFile EXCEPT !.pc = "returned", !.err = err]
    /\ UNCHANGED <<cloudVars, server, message, putFile>>

\* Get returns a reader r of the bytes data.
GetFileGetReader(data) ==
    /\ getFile.pc = "get"
    /\ getFile' = [getFile EXCEPT !.pc = "copy", !.r = data]
    /\ UNCHANGED <<cloudVars, server, message, putFile>>

\* io.Copy(w, r) appends the next byte of r to the file.
GetFileCopyWrite ==
    /\ getFile.pc = "copy"
    /\ Len(getFile.file.data) < Len(getFile.r)
    /\ getFile' = [getFile EXCEPT
                      !.file = Object(Append(getFile.file.data,
                                             getFile.r[Len(getFile.file.data) + 1]))]
    /\ UNCHANGED <<cloudVars, server, message, putFile>>

\* io.Copy fails, reading r or writing w: directory.Remove(name), return err
GetFileCopyFail(err) ==
    /\ getFile.pc = "copy"
    /\ getFile' = [getFile EXCEPT !.pc = "returned", !.err = err, !.file = Absent]
    /\ UNCHANGED <<cloudVars, server, message, putFile>>

\* io.Copy returns nil at the end of r: return nil
GetFileCopyDone ==
    /\ getFile.pc = "copy"
    /\ Len(getFile.file.data) = Len(getFile.r)
    /\ getFile' = [getFile EXCEPT !.pc = "returned", !.err = Nil]
    /\ UNCHANGED <<cloudVars, server, message, putFile>>

\* The directory holds no file under the name, or one of any content.
InitGetFile ==
    /\ CloudInit
    /\ server = ServerIdle
    /\ message = MessageIdle
    /\ putFile = PutFileIdle
    /\ \E file \in {Absent} \cup {Object(b) : b \in Blobs} :
          getFile = [GetFileIdle EXCEPT !.file = file, !.before = file]

NextGetFile ==
    \/ \E d \in Digests, isExecutable \in BOOLEAN,
          outcome \in {"exists", "created", "failed"} :
          GetFileCall(d, isExecutable, outcome)
    \/ \E err \in PutResults \ {Nil} : GetFileGetFail(err)
    \/ \E data \in Blobs : GetFileGetReader(data)
    \/ GetFileCopyWrite
    \/ \E err \in PutResults \ {Nil} : GetFileCopyFail(err)
    \/ GetFileCopyDone

SpecGetFile == InitGetFile /\ [][NextGetFile]_vars

\* -------------------------- blobAccessContentAddressableStorage.getMessage

\* The machine word of the model has WordBits bits, standing for the 64 bits
\* of int64 and uint64.
RECURSIVE Pow2(_)
Pow2(n) == IF n = 0 THEN 1 ELSE 2 * Pow2(n - 1)

\* int64: the signed and the unsigned values of a word
Int64 == (0 - Pow2(WordBits - 1))..(Pow2(WordBits - 1) - 1)
Uint64 == 0..(Pow2(WordBits) - 1)

\* uint64(sizeBytes): the conversion keeps the bits of the word.
ToUint64(x) == x % Pow2(WordBits)

\* GetAction, GetUncachedActionResult, GetCommand, GetDirectory and GetTree
\* call getMessage with the digest and an empty message.
MessageOps ==
    {"GetAction", "GetUncachedActionResult", "GetCommand", "GetDirectory", "GetTree"}

\* if sizeBytes := digest.GetSizeBytes(); uint64(sizeBytes) > cas.maximumMessageSizeBytes
Refuses(sizeBytes, maximumMessageSizeBytes) ==
    ToUint64(sizeBytes) > maximumMessageSizeBytes

\* getMessage up to the call of the backend's Get, or to the return of
\* InvalidArgument.
GetMessageCall(op, sizeBytes) ==
    /\ message.pc \in {"idle", "returned"}
    /\ LET called == [MessageIdle EXCEPT
                         !.op = op, !.sizeBytes = sizeBytes,
                         !.maximumMessageSizeBytes = message.maximumMessageSizeBytes]
       IN  message' = IF Refuses(sizeBytes, message.maximumMessageSizeBytes)
                      THEN [called EXCEPT !.pc = "returned",
                                          !.err = StatusError("InvalidArgument")]
                      ELSE [called EXCEPT !.pc = "get", !.gets = @ + 1]
    /\ UNCHANGED <<cloudVars, server, getFile, putFile>>

\* _, r, err := cas.blobAccess.Get(ctx, digest); if err != nil { return err }
GetMessageGetFail(err) ==
    /\ message.pc = "get"
    /\ message' = [message EXCEPT !.pc = "returned", !.err = err]
    /\ UNCHANGED <<cloudVars, server, getFile, putFile>>

\* Get returns a reader
GetMessageGetReader ==
    /\ message.pc = "get"
    /\ message' = [message EXCEPT !.pc = "read"]
    /\ UNCHANGED <<cloudVars, server, getFile, putFile>>

\* data, err := ioutil.ReadAll(r); r.Close(); return proto.Unmarshal(data, message):
\* err is the error of ReadAll or of Unmarshal, or nil.
GetMessageReturn(err) ==
    /\ message.pc = "read"
    /\ message' = [message EXCEPT !.pc = "returned", !.err = err]
    /\ UNCHANGED <<cloudVars, server, getFile, putFile>>

\* The CAS is created with any maximum message size.
InitMessage ==
    /\ CloudInit
    /\ server = ServerIdle
    /\ getFile = GetFileIdle
    /\ putFile = PutFileIdle
    /\ \E maximumMessageSizeBytes \in Uint64 :
          message = [MessageIdle EXCEPT
                        !.maximumMessageSizeBytes = maximumMessageSizeBytes]

\* One message is fetched.
NextMessage ==
    \/ \E op \in MessageOps, sizeBytes \in Int64 :
          message.pc = "idle" /\ GetMessageCall(op, sizeBytes)
    \/ \E err \in PutResults \ {Nil} : GetMessageGetFail(err)
    \/ GetMessageGetReader
    \/ \E err \in PutResults : GetMessageReturn(err)

SpecMessage == InitMessage /\ [][NextMessage]_vars

\* ----------------------------- blobAccessContentAddressableStorage.PutFile

\* digestGenerator.Sum(): the digest of the bytes written to the generator.
Sum(written) == [hash |-> Hash(written), size |-> Len(written)]

\* file, err := directory.OpenRead(name)
PutFileCall(ok) ==
    /\ putFile.pc \in {"idle", "returned"}
    /\ putFile' = IF ok
                  THEN [PutFileIdle EXCEPT !.pc = "digest", !.file = putFile.file]
                  ELSE [PutFileIdle EXCEPT !.pc = "returned", !.file = putFile.file,
                                           !.err = NativeError("Unknown")]
    /\ UNCHANGED <<cloudVars, server, message, getFile>>

\* Another process appends a byte to the file while PutFile runs.
PutFileAppend(b) ==
    /\ putFile.pc \in {"digest", "upload"}
    /\ Len(putFile.file) < MaxFile
    /\ putFile' = [putFile EXCEPT !.file = Append(@, b)]
    /\ UNCHANGED <<cloudVars, server, message, getFile>>

\* io.Copy(digestGenerator, io.NewSectionReader(file, 0, math.MaxInt64))
\* reads the next byte of the file.
PutFileDigestRead ==
    /\ putFile.pc = "digest"
    /\ Len(putFile.hashed) < Len(putFile.file)
    /\ putFile' = [putFile EXCEPT !.hashed = Append(@, putFile.file[Len(@) + 1])]
    /\ UNCHANGED <<cloudVars, server, message, getFile>>

\* io.Copy fails: file.Close(); return nil, err
PutFileDigestFail(err) ==
    /\ putFile.pc = "digest"
    /\ putFile' = [putFile EXCEPT !.pc = "returned", !.err = err]
    /\ UNCHANGED <<cloudVars, server, message, getFile>>

\* io.Copy meets the end of the file and returns sizeBytes; digest :=
\* digestGenerator.Sum(); cas.blobAccess.Put(ctx, digest,
\* digest.GetSizeBytes(), newSectionReadCloser(file, 0, sizeBytes)) is called.
PutFileDigestDone ==
    /\ putFile.pc = "digest"
    /\ Len(putFile.hashed) = Len(putFile.file)
    /\ putFile' = [putFile EXCEPT !.pc = "upload",
                                  !.sizeBytes = Len(putFile.hashed),
                                  !.digest = Sum(putFile.hashed),
                                  !.declared = Sum(putFile.hashed).size]
    /\ UNCHANGED <<cloudVars, server, message, getFile>>

\* The offset at which newSectionReadCloser(r, 0, n) reports EOF on a file:
\* after n bytes, or at the end of the file when that comes first.
SectionEndOfFile(n, file) == Len(file)

SectionEnd(n, file) == IF n < Len(file) THEN n ELSE Len(file)

\* The backend's Put reads the next byte of the stream.
PutFileUploadRead ==
    /\ putFile.pc = "upload"
    /\ ~putFile.eof
    /\ Len(putFile.offered) < SectionEnd(putFile.sizeBytes, putFile.file)
    /\ putFile' = [putFile EXCEPT !.offered = Append(@, putFile.file[Len(@) + 1])]
    /\ UNCHANGED <<cloudVars, server, message, getFile>>

\* The backend's Put reads the end of the stream.
PutFileUploadEOF ==
    /\ putFile.pc = "upload"
    /\ ~putFile.eof
    /\ Len(putFile.offered) = SectionEnd(putFile.sizeBytes, putFile.file)
    /\ putFile' = [putFile EXCEPT !.eof = TRUE]
    /\ UNCHANGED <<cloudVars, server, message, getFile>>

\* The backend's Put returns: nil once it has read the stream to its end, or
\* an error at any moment.
PutFilePutReturn(err) ==
    /\ putFile.pc = "upload"
    /\ err = Nil => putFile.eof
    /\ putFile' = [putFile EXCEPT !.pc = "returned", !.err = err]
    /\ UNCHANGED <<cloudVars, server, message, getFile>>

\* The directory holds a file of any content under the name.
InitPutFile ==
    /\ CloudInit
    /\ server = ServerIdle
    /\ message = MessageIdle
    /\ getFile = GetFileIdle
    /\ \E file \in Blobs : putFile = [PutFileIdle EXCEPT !.file = file]

\* One file is stored.
NextPutFile ==
    \/ \E ok \in BOOLEAN : putFile.pc = "idle" /\ PutFileCall(ok)
    \/ \E b \in Bytes : PutFileAppend(b)
    \/ PutFileDigestRead
    \/ \E err \in PutResults \ {Nil} : PutFileDigestFail(err)
    \/ PutFileDigestDone
    \/ PutFileUploadRead
    \/ PutFileUploadEOF
    \/ \E err \in PutResults : PutFilePutReturn(err)

SpecPutFile == InitPutFile /\ [][NextPutFile]_vars

\* ================================================================ claims

Count(events, e) == Cardinality({i \in DOMAIN events : events[i] = e})

PutKey == getKey(storageType, put.digest)

\* C1: once Put(d, b) has returned nil, a later Get(d) with no delete of the
\* key in between does not report NotFound and yields the bytes b.
C1_ReadYourWrites ==
    (getBuf.state # "none" /\ getBuf.expected.present) =>
        /\ getBuf.state = "error" => getBuf.err.code # "NotFound"
        /\ getBuf.state \in {"reader", "consumed"} => getBuf.data = getBuf.expected.data

\* C2: from the moment Put(d, b) was called, on every path, the object under
\* d's key is the complete bytes of b or what was there before the call.
C2_NoPartialObject ==
    put.pc # "idle" =>
        \/ bucket[PutKey] = Object(put.data)
        \/ bucket[PutKey] = put.before

\* Put returned after a failed copy that had not written all of the bytes,
\* with an object under the key before the call.
C2_Witness ==
    /\ put.pc = "returned"
    /\ put.copyErr # Nil
    /\ put.written # put.data
    /\ put.before.present
    /\ put.before # Object(put.written)

\* C3: after a failed copy the write context is cancelled before the writer
\* is closed, and Put returns the copy's error.
C3_CancelBeforeClose ==
    put.copyErr # Nil =>
        /\ put.pc = "returned"
        /\ put.result = put.copyErr
        /\ Count(put.events, "Close") = 1
        /\ \A j \in DOMAIN put.events :
              put.events[j] = "Close" =>
                  \E i \in 1..(j - 1) : put.events[i] = "Cancel"

\* Put returned the error of a copy that failed, the caller's own context
\* still live.
C3_Witness ==
    /\ put.pc = "returned"
    /\ put.copyErr = NativeError("Unknown")
    /\ ~put.ctxDone
    /\ Count(put.events, "Close") = 1

\* C4: a FindMissing(S) in which no existence check failed returns exactly
\* the digests of S whose key is absent from the bucket.
C4_MissingIffAbsent ==
    (fm.pc = "returned" /\ fm.err = Nil) =>
        fm.result = {d \in fm.digests : ~bucket[getKey(storageType, d)].present}

\* FindMissing returned for a set with a present and an absent digest.
C4_Witness ==
    /\ fm.pc = "returned"
    /\ fm.err = Nil
    /\ fm.result # {}
    /\ fm.result # fm.digests

\* C5: a FindMissing(S) called after Put(d, b) returned nil, d in S and the
\* key not deleted since, does not return d.
C5_PutThenNotMissing ==
    (fm.pc = "returned" /\ fm.err = Nil) => fm.guaranteed \cap fm.result = {}

\* C6: every error Get embeds in the buffer it returns is a status of the
\* error taxonomy.
C6_ErrorsTranslated ==
    getBuf.state = "error" =>
        getBuf.err.kind = "grpc" /\ getBuf.err.code \in Taxonomy

\* C7: once the repair callback of a buffer that failed validation has run,
\* the bucket not failing, the key Get read is gone from the bucket,
\* whether or not the context of the Get has been cancelled.
C7_RepairDeletes ==
    (getBuf.state = "consumed" /\ getBuf.repair \notin {"none", "failed"}) =>
        ~bucket[getKey(storageType, getBuf.digest)].present

\* C8: on every exit path of Put the buffer saw exactly one ToReader and
\* the reader was closed exactly once, and not before Put returns.
C8_OneTerminalOp ==
    put.pc # "idle" =>
        /\ Count(put.events, "ToReader") = 1
        /\ Count(put.events, "ReaderClose") = (IF put.pc = "returned" THEN 1 ELSE 0)

\* Put returned because the writer could not be created.
C8_Witness ==
    /\ put.pc = "returned"
    /\ put.result # Nil
    /\ Count(put.events, "NewWriter") = 0

\* C9: BatchUpdateBlobs returns no error and a response with exactly one
\* entry per request element, carrying that element's digest: for every
\* digest, as many entries as the request has elements with it.
C9_OneResponsePerElement ==
    batch.pc = "returned" =>
        /\ batch.rpcErr = Nil
        /\ Len(batch.response) = Len(batch.requests)
        /\ \A e \in RequestElements :
              Cardinality({j \in DOMAIN batch.response :
                              batch.response[j].Digest = e.Digest})
              = Cardinality({i \in DOMAIN batch.requests :
                                batch.requests[i].Digest = e.Digest})

\* BatchUpdateBlobs returned for a request of two elements with different
\* digests, one not valid, the Put of the other failed.
C9_Witness ==
    /\ batch.pc = "returned"
    /\ Len(batch.requests) = 2
    /\ batch.requests[1].Digest # batch.requests[2].Digest
    /\ \E i \in DOMAIN batch.requests : DigestError(batch.requests[i].Digest) # Nil
    /\ \E i \in DOMAIN batch.requests : batch.putResult[i] # Nil

\* C10: an element with a digest that is not valid gets no Put and the
\* validation error as its status; any other element gets exactly one Put
\* and that Put's result as its status, whatever became of the others.
C10_IndependentStatus ==
    \A i \in DOMAIN batch.requests :
        LET invalid == DigestError(batch.requests[i].Digest) # Nil
        IN  /\ invalid => batch.puts[i] = 0
            /\ batch.puts[i] <= 1
            /\ batch.worker[i] \in {"send", "done"} =>
                  batch.puts[i] = (IF invalid THEN 0 ELSE 1)
            /\ batch.worker[i] = "done" =>
                  batch.sent[i].Status =
                      (IF invalid THEN Convert(DigestError(batch.requests[i].Digest))
                       ELSE Convert(batch.putResult[i]))

\* Two elements are done: the Put of one failed, the Put of the other
\* succeeded and it reports OK.
C10_Witness ==
    /\ Len(batch.requests) = 2
    /\ batch.worker = <<"done", "done">>
    /\ batch.puts = <<1, 1>>
    /\ batch.putResult[1] # Nil
    /\ batch.putResult[2] = Nil
    /\ batch.sent[2].Status = "OK"

\* C11: FindMissingBlobs builds the digest set of the request's instance
\* name and blob digests and calls the backend's FindMissing exactly once,
\* with that set, and no other method; it returns exactly the partial
\* digests of the set the backend returned.  When a digest of the request is
\* not valid it returns that digest's error and never calls the backend;
\* when the backend fails it returns the backend's error and no response.
C11_FindMissingBlobs ==
    server.op = "FindMissingBlobs" =>
        LET invalid == \E i \in DOMAIN server.blobDigests :
                           DigestError(server.blobDigests[i]) # Nil
            requested == {NewDigestFromPartialDigest(server.instanceName,
                                                     server.blobDigests[i]) :
                             i \in DOMAIN server.blobDigests}
        IN  /\ server.calls.Get = 0 /\ server.calls.Put = 0
            /\ invalid =>
                  /\ server.pc = "returned"
                  /\ server.calls.FindMissing = 0
                  /\ server.err = StatusError("InvalidArgument")
                  /\ ~server.hasResponse
            /\ ~invalid =>
                  /\ server.calls.FindMissing = 1
                  /\ server.inDigests = requested
            /\ (server.pc = "returned" /\ ~invalid /\ server.backendErr = Nil) =>
                  /\ server.err = Nil
                  /\ server.hasResponse
                  /\ Len(server.response) = Cardinality(server.outDigests)
                  /\ {server.response[i] : i \in DOMAIN server.response}
                     = {GetPartialDigest(d) : d \in server.outDigests}
            /\ (server.pc = "returned" /\ server.backendErr # Nil) =>
                  /\ server.err = server.backendErr
                  /\ ~server.hasResponse

\* FindMissingBlobs returned one of the two digests of a request for the
\* instance "other".
C11_Witness ==
    /\ server.op = "FindMissingBlobs"
    /\ server.pc = "returned"
    /\ server.instanceName = "other"
    /\ Cardinality(server.inDigests) = 2
    /\ Len(server.response) = 1

\* C12: BatchReadBlobs and GetTree return an error of code Unimplemented for
\* every request, without a response and without any Get, Put or FindMissing
\* on the backend.
C12_Unimplemented ==
    server.op \in {"BatchReadBlobs", "GetTree"} =>
        /\ server.pc = "returned"
        /\ server.err = StatusError("Unimplemented")
        /\ ~server.hasResponse
        /\ server.calls = [Get |-> 0, Put |-> 0, FindMissing |-> 0]

\* GetTree returned for a request that names a valid digest.
C12_Witness ==
    /\ server.op = "GetTree"
    /\ server.pc = "returned"
    /\ server.blobDigests # <<>>
    /\ \A i \in DOMAIN server.blobDigests : DigestError(server.blobDigests[i]) = Nil

\* C13: a BatchUpdateBlobs call returns.  While it runs, a worker that has
\* its response ready can send it at once, the responses sent are those in
\* the channel and those received, and the channel never holds more than n;
\* when it returns every worker has sent, exactly n responses were received
\* and the channel is empty.
C13_Terminates ==
    /\ [](batch.pc = "running" =>
            /\ \A i \in DOMAIN batch.requests :
                  batch.worker[i] = "send" => ENABLED WorkerSend(i)
            /\ Len(batch.chan) + Len(batch.response)
               = Cardinality({i \in DOMAIN batch.requests : batch.worker[i] = "done"})
            /\ Len(batch.chan) <= Len(batch.requests))
    /\ [](batch.pc = "returned" =>
            /\ \A i \in DOMAIN batch.requests : batch.worker[i] = "done"
            /\ Len(batch.response) = Len(batch.requests)
            /\ batch.chan = <<>>)
    /\ (batch.pc = "running") ~> (batch.pc = "returned")

\* Every worker of a request of MaxRequests elements has sent before the
\* first response was received.
C13_Witness ==
    /\ batch.pc = "running"
    /\ Len(batch.requests) = MaxRequests
    /\ Len(batch.chan) = MaxRequests
    /\ batch.response = <<>>

\* C14: when GetFile returns an error after it created the file, the
\* directory holds no file under the name; when it returns the error of
\* creating the file, the directory holds what it held before the call.
C14_NoTraceOnFailure ==
    (getFile.pc = "returned" /\ getFile.err # Nil) =>
        /\ getFile.created => ~getFile.file.present
        /\ ~getFile.created => getFile.file = getFile.before

C16_UploadLimited ==
    /\ putFile.declared = putFile.sizeBytes
    /\ (putFile.pc = "upload" \/ putFile.offered # <<>> \/ putFile.eof) =>
          /\ putFile.digest = Sum(putFile.hashed)
          /\ putFile.declared = Len(putFile.hashed)
          /\ Len(putFile.offered) <= putFile.sizeBytes
          /\ putFile.eof =>
                /\ Len(putFile.offered) = putFile.declared
                /\ putFile.offered = putFile.hashed

\* The stream ended although a byte was appended to the file after the
\* digest was computed.
C16_Witness ==
    /\ putFile.eof
    /\ putFile.sizeBytes > 0
    /\ Len(putFile.file) > putFile.sizeBytes

\* C17: when an existence check of FindMissing(S) fails the call has
\* returned the empty set with the error of the check, the failed check is
\* the last one made, so the digests of S after it were not checked, and
\* no step of FindMissing changes the bucket.
C17_FailFast ==
    /\ [](fm.err # Nil =>
            /\ fm.pc = "returned"
            /\ fm.result = {}
            /\ fm.err.kind = "native"
            /\ fm.checks = fm.idx
            /\ fm.checks <= Len(fm.items))
    /\ [][fm.pc = "loop" => bucket' = bucket]_vars

\* An existence check failed with a digest of the set still to check, the
\* bucket holding objects.
C17_Witness ==
    /\ fm.pc = "returned"
    /\ fm.err # Nil
    /\ fm.checks < Len(fm.items)
    /\ \E d \in fm.digests : bucket[getKey(storageType, d)].present

\* C18: when Put has returned, the write context it derived was cancelled,
\* exactly once; when it returned nil the writer was closed before the
\* cancel, with the write context not cancelled by Put.
C18_CancelOnEveryExit ==
    /\ put.pc = "returned" =>
          /\ put.cancelled
          /\ Count(put.events, "Cancel") = 1
          /\ put.result = Nil =>
                /\ Count(put.events, "Close") = 1
                /\ \A i, j \in DOMAIN put.events :
                      (put.events[i] = "Close" /\ put.events[j] = "Cancel") => i < j
    /\ (put.pc = "cancel" /\ put.copyErr = Nil) =>
          /\ ~put.cancelled
          /\ Count(put.events, "Close") = 1

\* Put returned nil after it wrote all the bytes of a blob that is not
\* empty.
C18_Witness ==
    /\ put.pc = "returned"
    /\ put.result = Nil
    /\ put.written = put.data
    /\ put.data # <<>>
    /\ put.cancelled
====
